---- MODULE Spec2Model ----
(***************************************************************************)
(* A model of corpus-build (src/main.py): the batch run of _main, which    *)
(* reads a list of publications, fetches the full texts of each domain     *)
(* from the source database, assigns dhlab ids and writes every record to  *)
(* a per-domain jsonlines file and to a local sqlite database.             *)
(***************************************************************************)
EXTENDS Integers, Sequences, FiniteSets, TLC

(* ------------------------------ bounds -------------------------------- *)
\* number of entries of filter_dict["publications"]
MaxDomains == 2
\* rows returned by the warcinfo query of one domain
MaxRows == 2
\* rows returned by the fulltext query of one hash
MaxVariants == 2
\* largest --starting-dhlab-id tried
MaxStart == 1
\* columns of a row handed to _remove_duplicates_and_empty_strings
MaxColumns == 2
\* characters of a text handed to _parse_tokens
MaxTextLen == 6

(* ------------------------------ values -------------------------------- *)
None == "None"

\* a text is a sequence of characters; "" is the empty sequence. The texts the
\* fulltext table holds: "", "a" and "a b\n\na"
TextPool == { <<>>, <<"a">>, <<"a", " ", "b", "\n", "\n", "a">> }

RecordIds == {None, "r1"}

\* the (fulltext_hash, target_uri) pairs of the source, in the order of the
\* query's ORDER BY: two origins share the hash h1
HashUriPairs == << <<"h1", "u1">>, <<"h1", "u2">>, <<"h2", "u1">> >>

\* a row of the warcinfo query (warcpath and date go with the record_id);
\* rank is its place in the ORDER BY
SourceRows ==
    { [record_id |-> r, hash |-> HashUriPairs[k][1], uri |-> HashUriPairs[k][2],
       rank |-> k] : r \in RecordIds, k \in 1..Len(HashUriPairs) }

\* the result sets the query can return: DISTINCT ON (fulltext_hash,
\* target_uri), ORDER BY fulltext_hash, target_uri
WarcinfoResults ==
    { rows \in UNION { [1..n -> SourceRows] : n \in 0..MaxRows } :
        \A i \in 1..Len(rows) : \A j \in 1..Len(rows) :
            i < j => rows[i].rank < rows[j].rank }

\* the result sets of the fulltext query: one 1-tuple per row
FulltextResults ==
    UNION { [1..n -> { <<t>> : t \in TextPool }] : n \in 0..MaxVariants }

(* ------------------------- pure functions ----------------------------- *)
RECURSIVE RemoveItems_KeepsEmpty(_, _)
\* RemoveItems without the test for the empty string
RemoveItems_KeepsEmpty(entry, filtered_results) ==
    IF entry = <<>> THEN filtered_results
    ELSE LET item == Head(entry)
             keep == \A k \in 1..Len(filtered_results) :
                         filtered_results[k] # item
         IN RemoveItems_KeepsEmpty(Tail(entry),
                IF keep THEN Append(filtered_results, item) ELSE filtered_results)

RECURSIVE RemoveItems(_, _)
\* inner loop of _remove_duplicates_and_empty_strings over one entry
RemoveItems(entry, filtered_results) ==
    IF entry = <<>> THEN filtered_results
    ELSE LET item == Head(entry)
             keep == item # <<>> /\ \A k \in 1..Len(filtered_results) :
                                        filtered_results[k] # item
         IN RemoveItems(Tail(entry),
                IF keep THEN Append(filtered_results, item) ELSE filtered_results)

RECURSIVE RemoveEntries(_, _)
RemoveEntries(results, filtered_results) ==
    IF results = <<>> THEN filtered_results
    ELSE RemoveEntries(Tail(results), RemoveItems(Head(results), filtered_results))

_remove_duplicates_and_empty_strings(results) == RemoveEntries(results, <<>>)

RECURSIVE FilterRows(_, _)
\* the loop of _fetch_fulltext_hash_and_metadata over all_results
FilterRows(all_results, filtered_results) ==
    IF all_results = <<>> THEN filtered_results
    ELSE LET result == Head(all_results)
             keep == result.record_id # None
                     /\ \A k \in 1..Len(filtered_results) :
                            filtered_results[k].hash # result.record_id
         IN FilterRows(Tail(all_results),
                IF keep THEN Append(filtered_results, result) ELSE filtered_results)

RECURSIVE Split(_, _, _)
\* str.split(sep): cur is the piece being read
Split(s, sep, cur) ==
    IF s = <<>> THEN <<cur>>
    ELSE IF Head(s) = sep THEN <<cur>> \o Split(Tail(s), sep, <<>>)
    ELSE Split(Tail(s), sep, Append(cur, Head(s)))

\* the tokenizer, as a word tokenizer: the non-empty pieces between blanks
tokenize(paragraph) ==
    SelectSeq(Split(paragraph, " ", <<>>), LAMBDA w : w # <<>>)

RECURSIVE ParseParagraphs_SkipsEmpty(_, _, _)
\* ParseParagraphs with the paragraph number counting only the paragraphs
\* that have tokens
ParseParagraphs_SkipsEmpty(paragraphs, paragraph_number, sequence_number) ==
    IF paragraphs = <<>> THEN <<>>
    ELSE LET tokens == tokenize(Head(paragraphs))
         IN [i \in 1..Len(tokens) |->
                [token |-> tokens[i],
                 sequence_number |-> sequence_number + i - 1,
                 paragraph_number |-> paragraph_number]]
            \o ParseParagraphs_SkipsEmpty(Tail(paragraphs),
                   IF tokens = <<>> THEN paragraph_number
                   ELSE paragraph_number + 1,
                   sequence_number + Len(tokens))

RECURSIVE ParseParagraphs(_, _, _)
\* the loops of _parse_tokens over the paragraphs and their tokens
ParseParagraphs(paragraphs, paragraph_number, sequence_number) ==
    IF paragraphs = <<>> THEN <<>>
    ELSE LET tokens == tokenize(Head(paragraphs))
         IN [i \in 1..Len(tokens) |->
                [token |-> tokens[i],
                 sequence_number |-> sequence_number + i - 1,
                 paragraph_number |-> paragraph_number]]
            \o ParseParagraphs(Tail(paragraphs), paragraph_number + 1,
                               sequence_number + Len(tokens))

_parse_tokens(fulltext) == ParseParagraphs(Split(fulltext, "\n", <<>>), 0, 0)

(* ------------------------------ state ---------------------------------- *)
VARIABLES
    pc,              \* position of _main
    args,            \* args.dhlab_id_status
    dhlabid_value,   \* the identifier counter
    conn,            \* the source connection: "unopened", "open", "closed"
    numPubs,         \* len(filter_dict["publications"])
    domIdx,          \* number of publications the domain loop has taken
    items,           \* the publication being processed
    collection,      \* fulltext_metadata_collection
    metaIdx,         \* position in fulltext_metadata_collection
    texts,           \* the text variants of the current hash
    textIdx,         \* position in texts
    fulltext_dict,   \* the record being emitted
    log,             \* the jsonlines files, as one sequence in write order
    db,              \* the tables of the local sqlite database
    dbfile,          \* name of the database file
    exc,             \* the exception being handled
    status,          \* per publication: phase, error, counter at its start,
                     \* and whether its failure left records unprocessed
    emitted,         \* identifiers for which line 301 ran, in order
    fn_arg,          \* argument of a function called on its own
    fn_result        \* whether that call has returned, and its value

vars == <<pc, args, dhlabid_value, conn, numPubs, domIdx, items, collection,
          metaIdx, texts, textIdx, fulltext_dict, log, db, dbfile, exc,
          status, emitted, fn_arg, fn_result>>

NoItem == [domain |-> None, editor |-> None, complete |-> FALSE]
NoDict == [dhlabid |-> 0, hash |-> None, domain |-> None, record_id |-> None,
           uri |-> None, full_text |-> <<>>]

\* the domain of the d-th publication (domains are unique within a run)
DomainName(d) == "d" \o ToString(d)

\* a publication: the domain key may be missing, the responsible-editor flag
\* may be missing or false, title or geodata may be missing
Publications(d) ==
    [domain : {None, DomainName(d)}, editor : {"absent", "false", "true"}, complete : BOOLEAN]

DhlabIdStatuses ==
    {[is_disabled |-> TRUE, starting_value |-> 0]}
    \cup {[is_disabled |-> FALSE, starting_value |-> s] : s \in 0..MaxStart}

\* no function has been called on its own
NoResult == [done |-> FALSE, value |-> <<>>]

EmptyDb == [metadata |-> <<>>, urns |-> <<>>, ft |-> <<>>]

Init ==
    /\ pc = "connect"
    /\ args \in DhlabIdStatuses
    /\ dhlabid_value = IF ~args.is_disabled THEN args.starting_value ELSE 1
    /\ conn = "unopened"
    /\ numPubs = 0
    /\ domIdx = 0
    /\ items = NoItem
    /\ collection = <<>>
    /\ metaIdx = 0
    /\ texts = <<>>
    /\ textIdx = 0
    /\ fulltext_dict = NoDict
    /\ log = <<>>
    /\ db = EmptyDb
    /\ dbfile = "temp"
    /\ exc = None
    /\ status = [d \in 1..MaxDomains |->
                    [phase |-> "Pending", error |-> None, first_id |-> 0,
                     skipped |-> FALSE]]
    /\ emitted = <<>>
    /\ fn_arg = <<>>
    /\ fn_result = NoResult

(* --------------------------- the connection --------------------------- *)
\* _connect_to_database up to its yield
Connect ==
    /\ pc = "connect"
    /\ conn' = "open"
    /\ pc' = "load_config"
    /\ UNCHANGED <<fn_arg, fn_result>>
    /\ UNCHANGED <<args, dhlabid_value, numPubs, domIdx, items, collection,
                   metaIdx, texts, textIdx, fulltext_dict, log, db, dbfile,
                   exc, status, emitted>>

\* connect() raises: nothing was acquired and the run ends
ConnectFail ==
    /\ pc = "connect"
    /\ pc' = "crashed"
    /\ exc' = "OperationalError"
    /\ UNCHANGED <<fn_arg, fn_result>>
    /\ UNCHANGED <<args, dhlabid_value, conn, numPubs, domIdx, items,
                   collection, metaIdx, texts, textIdx, fulltext_dict, log,
                   db, dbfile, status, emitted>>

\* open() and load() of the filter file, inside the with block
LoadConfig ==
    /\ pc = "load_config"
    /\ \E n \in 0..MaxDomains : numPubs' = n
    /\ pc' = "loop"
    /\ UNCHANGED <<fn_arg, fn_result>>
    /\ UNCHANGED <<args, dhlabid_value, conn, domIdx, items, collection,
                   metaIdx, texts, textIdx, fulltext_dict, log, db, dbfile,
                   exc, status, emitted>>

\* the file is missing, is no yaml or has no "publications": the error leaves
\* the with block, and the generator of _connect_to_database is not resumed
\* after its yield
LoadConfigFail ==
    /\ pc = "load_config"
    /\ pc' = "crashed"
    /\ exc' = "ConfigError"
    /\ UNCHANGED <<fn_arg, fn_result>>
    /\ UNCHANGED <<args, dhlabid_value, conn, numPubs, domIdx, items,
                   collection, metaIdx, texts, textIdx, fulltext_dict, log,
                   db, dbfile, status, emitted>>

\* the with block ends normally: the generator resumes after its yield
CloseConnection ==
    /\ pc = "close"
    /\ conn' = "closed"
    /\ pc' = "rename"
    /\ UNCHANGED <<fn_arg, fn_result>>
    /\ UNCHANGED <<args, dhlabid_value, numPubs, domIdx, items, collection,
                   metaIdx, texts, textIdx, fulltext_dict, log, db, dbfile,
                   exc, status, emitted>>

(* --------------------------- the domain loop -------------------------- *)
\* the locals of one iteration are assigned again before the next iteration
\* reads them: once the iteration has ended they are given their initial
\* values, so that states differing only in dead values are one state
IterationLocalsDead ==
    /\ items' = NoItem
    /\ collection' = <<>>
    /\ metaIdx' = 0
    /\ texts' = <<>>
    /\ textIdx' = 0
    /\ fulltext_dict' = NoDict

\* NextDomain with the counter set back to the starting value for each domain
NextDomain_ResetsCounter ==
    /\ pc = "loop"
    /\ domIdx < numPubs
    /\ domIdx' = domIdx + 1
    /\ \E it \in Publications(domIdx + 1) : items' = it
    /\ dhlabid_value' = IF ~args.is_disabled THEN args.starting_value ELSE 1
    /\ status' = [status EXCEPT ![domIdx + 1] =
                    [phase |-> "Fetching", error |-> None,
                     first_id |-> dhlabid_value', skipped |-> FALSE]]
    /\ pc' = "validate"
    /\ UNCHANGED <<fn_arg, fn_result>>
    /\ UNCHANGED <<args, conn, numPubs, collection, metaIdx, texts, textIdx,
                   fulltext_dict, log, db, dbfile, exc, emitted>>

\* for items in filter_dict["publications"]: the next publication
NextDomain ==
    /\ pc = "loop"
    /\ domIdx < numPubs
    /\ domIdx' = domIdx + 1
    /\ \E it \in Publications(domIdx + 1) : items' = it
    /\ status' = [status EXCEPT ![domIdx + 1] =
                    [phase |-> "Fetching", error |-> None,
                     first_id |-> dhlabid_value, skipped |-> FALSE]]
    /\ pc' = "validate"
    /\ UNCHANGED <<fn_arg, fn_result>>
    /\ UNCHANGED <<args, dhlabid_value, conn, numPubs, collection, metaIdx,
                   texts, textIdx, fulltext_dict, log, db, dbfile, exc,
                   emitted>>

\* the list is exhausted: the with blocks are left
LoopExit ==
    /\ pc = "loop"
    /\ domIdx >= numPubs
    /\ pc' = "close"
    /\ UNCHANGED <<fn_arg, fn_result>>
    /\ UNCHANGED <<args, dhlabid_value, conn, numPubs, domIdx, items,
                   collection, metaIdx, texts, textIdx, fulltext_dict, log,
                   db, dbfile, exc, status, emitted>>

\* ValidationError without the test of the flag's value
ValidationError_IgnoresFalse(it) ==
    IF it.domain = None THEN "KeyError"
    ELSE IF it.editor = "absent" THEN "KeyError"
    ELSE None

\* the exception lines 246-248 raise for a publication, or None
ValidationError(it) ==
    IF it.domain = None THEN "KeyError"
    ELSE IF it.editor = "absent" THEN "KeyError"
    ELSE IF it.editor = "false" THEN "ValueError"
    ELSE None

\* print of the domain and the responsible-editor check
Validate ==
    /\ pc = "validate"
    /\ exc' = ValidationError(items)
    /\ pc' = IF ValidationError(items) = None THEN "fetch_metadata" ELSE "except"
    /\ UNCHANGED <<fn_arg, fn_result>>
    /\ UNCHANGED <<args, dhlabid_value, conn, numPubs, domIdx, items,
                   collection, metaIdx, texts, textIdx, fulltext_dict, log,
                   db, dbfile, status, emitted>>

\* _fetch_fulltext_hash_and_metadata returns
FetchMetadata ==
    /\ pc = "fetch_metadata"
    /\ \E all_results \in WarcinfoResults :
           collection' = FilterRows(all_results, <<>>)
    /\ metaIdx' = 0
    /\ status' = [status EXCEPT ![domIdx].phase = "Processing"]
    /\ pc' = "next_metadata"
    /\ UNCHANGED <<fn_arg, fn_result>>
    /\ UNCHANGED <<args, dhlabid_value, conn, numPubs, domIdx, items, texts,
                   textIdx, fulltext_dict, log, db, dbfile, exc, emitted>>

\* FetchMetadataFail with an identifier taken before the fetch
FetchMetadataFail_ConsumesId ==
    /\ pc = "fetch_metadata"
    /\ exc' = "MetadataFetchError"
    /\ pc' = "except"
    /\ dhlabid_value' = dhlabid_value + 1
    /\ UNCHANGED <<fn_arg, fn_result>>
    /\ UNCHANGED <<args, conn, numPubs, domIdx, items, collection, metaIdx,
                   texts, textIdx, fulltext_dict, log, db, dbfile, status,
                   emitted>>

\* _fetch_fulltext_hash_and_metadata raises (the query or a date fails)
FetchMetadataFail ==
    /\ pc = "fetch_metadata"
    /\ exc' = "MetadataFetchError"
    /\ pc' = "except"
    /\ UNCHANGED <<fn_arg, fn_result>>
    /\ UNCHANGED <<args, dhlabid_value, conn, numPubs, domIdx, items,
                   collection, metaIdx, texts, textIdx, fulltext_dict, log,
                   db, dbfile, status, emitted>>

\* for fulltext_metadata in fulltext_metadata_collection: the next one
NextMetadata ==
    /\ pc = "next_metadata"
    /\ metaIdx < Len(collection)
    /\ metaIdx' = metaIdx + 1
    /\ pc' = "fetch_texts"
    /\ UNCHANGED <<fn_arg, fn_result>>
    /\ UNCHANGED <<args, dhlabid_value, conn, numPubs, domIdx, items,
                   collection, texts, textIdx, fulltext_dict, log, db, dbfile,
                   exc, status, emitted>>

\* the collection is exhausted: the try block ends without an exception
DomainCompleted ==
    /\ pc = "next_metadata"
    /\ metaIdx >= Len(collection)
    /\ status' = [status EXCEPT ![domIdx].phase = "Completed"]
    /\ pc' = "loop"
    /\ IterationLocalsDead
    /\ UNCHANGED <<fn_arg, fn_result>>
    /\ UNCHANGED <<args, dhlabid_value, conn, numPubs, domIdx, log, db,
                   dbfile, exc, emitted>>

\* _fetch_fulltext_with_fulltext_hash returns
FetchTexts ==
    /\ pc = "fetch_texts"
    /\ \E results \in FulltextResults :
           texts' = _remove_duplicates_and_empty_strings(results)
    /\ textIdx' = 0
    /\ pc' = "next_text"
    /\ UNCHANGED <<fn_arg, fn_result>>
    /\ UNCHANGED <<args, dhlabid_value, conn, numPubs, domIdx, items,
                   collection, metaIdx, fulltext_dict, log, db, dbfile, exc,
                   status, emitted, fn_arg, fn_result>>

\* the fulltext query raises
FetchTextsFail ==
    /\ pc = "fetch_texts"
    /\ exc' = "FulltextFetchError"
    /\ pc' = "except"
    /\ UNCHANGED <<fn_arg, fn_result>>
    /\ UNCHANGED <<args, dhlabid_value, conn, numPubs, domIdx, items,
                   collection, metaIdx, texts, textIdx, fulltext_dict, log,
                   db, dbfile, status, emitted>>

\* the dict of lines 266-284 (title, flag, place, county go with the domain;
\* warcpath and timestamp go with the record_id)
BuildDict(fulltext_metadata, it, full_text, id) ==
    [dhlabid |-> id, hash |-> fulltext_metadata.hash, domain |-> it.domain,
     record_id |-> fulltext_metadata.record_id, uri |-> fulltext_metadata.uri,
     full_text |-> full_text]

\* for full_text in ...: the next variant and its dict; a publication without
\* title or geodata raises KeyError here
NextText ==
    /\ pc = "next_text"
    /\ textIdx < Len(texts)
    /\ textIdx' = textIdx + 1
    /\ IF items.complete
       THEN /\ fulltext_dict' = BuildDict(collection[metaIdx], items,
                                          texts[textIdx + 1], dhlabid_value)
            /\ pc' = "write_log"
            /\ exc' = exc
       ELSE /\ fulltext_dict' = fulltext_dict
            /\ pc' = "except"
            /\ exc' = "KeyError"
    /\ UNCHANGED <<fn_arg, fn_result>>
    /\ UNCHANGED <<args, dhlabid_value, conn, numPubs, domIdx, items,
                   collection, metaIdx, texts, log, db, dbfile, status,
                   emitted>>

\* the variants of this hash are exhausted
TextsDone ==
    /\ pc = "next_text"
    /\ textIdx >= Len(texts)
    /\ pc' = "next_metadata"
    /\ texts' = <<>>
    /\ textIdx' = 0
    /\ fulltext_dict' = NoDict
    /\ UNCHANGED <<fn_arg, fn_result>>
    /\ UNCHANGED <<args, dhlabid_value, conn, numPubs, domIdx, items,
                   collection, metaIdx, log, db, dbfile, exc, status,
                   emitted>>

(* ------------------------------ the sinks ------------------------------ *)
\* jsonlines.open(..., "a") and writer.write(fulltext_dict)
WriteLog ==
    /\ pc = "write_log"
    /\ log' = Append(log, fulltext_dict)
    /\ pc' = "write_db"
    /\ UNCHANGED <<fn_arg, fn_result>>
    /\ UNCHANGED <<args, dhlabid_value, conn, numPubs, domIdx, items,
                   collection, metaIdx, texts, textIdx, fulltext_dict, db,
                   dbfile, exc, status, emitted>>

\* WriteLogFail with the error of the log write swallowed
WriteLogFail_Unchecked ==
    /\ pc = "write_log"
    /\ pc' = "write_db"
    /\ UNCHANGED <<fn_arg, fn_result>>
    /\ UNCHANGED <<args, dhlabid_value, conn, numPubs, domIdx, items,
                   collection, metaIdx, texts, textIdx, fulltext_dict, log,
                   db, dbfile, exc, status, emitted>>

\* the file cannot be opened or written: nothing is appended
WriteLogFail ==
    /\ pc = "write_log"
    /\ exc' = "LogWriteError"
    /\ pc' = "except"
    /\ UNCHANGED <<fn_arg, fn_result>>
    /\ UNCHANGED <<args, dhlabid_value, conn, numPubs, domIdx, items,
                   collection, metaIdx, texts, textIdx, fulltext_dict, log,
                   db, dbfile, status, emitted>>

\* metadata_tuple = tuple(fulltext_dict.values())[:-1]
MetadataTuple(fd) ==
    [dhlabid |-> fd.dhlabid, hash |-> fd.hash, domain |-> fd.domain,
     record_id |-> fd.record_id, uri |-> fd.uri]

\* the token_tuples of lines 292-297
TokenTuples(fd) ==
    LET token_result_collection == _parse_tokens(fd.full_text)
    IN [i \in 1..Len(token_result_collection) |->
           [urn |-> fd.dhlabid,
            word |-> token_result_collection[i].token,
            seq |-> token_result_collection[i].sequence_number,
            para |-> token_result_collection[i].paragraph_number]]

\* urns.urn is INTEGER PRIMARY KEY
UrnExists(dbcon, urn) == \E k \in 1..Len(dbcon.urns) : dbcon.urns[k].urn = urn

\* _write_to_local_database with the token rows inserted and committed first
_write_to_local_database_TokensFirst(dbcon, token_tuples, metadata_tuple, fault) ==
    LET d1 == [dbcon EXCEPT !.ft = @ \o token_tuples]
        d2 == [d1 EXCEPT !.metadata = Append(@, metadata_tuple)]
        d3 == [d2 EXCEPT !.urns = Append(@, [urn |-> metadata_tuple.dhlabid,
                                 urntext |-> metadata_tuple.record_id])]
    IN IF fault = 1 THEN [db |-> dbcon, error |-> "OperationalError"]
       ELSE IF fault = 2 THEN [db |-> d1, error |-> "OperationalError"]
       ELSE IF fault = 3 THEN [db |-> d2, error |-> "OperationalError"]
       ELSE IF UrnExists(d2, metadata_tuple.dhlabid)
            THEN [db |-> d2, error |-> "IntegrityError"]
       ELSE [db |-> d3, error |-> None]

\* the three inserts, each followed by a commit. fault = k: insert k raises
\* for a reason of the environment (0: none does). An insert that raises is
\* rolled back when the with block is left; the commits before it stay.
_write_to_local_database(dbcon, token_tuples, metadata_tuple, fault) ==
    LET d1 == [dbcon EXCEPT !.metadata = Append(@, metadata_tuple)]
        d2 == [d1 EXCEPT !.urns = Append(@, [urn |-> metadata_tuple.dhlabid,
                                 urntext |-> metadata_tuple.record_id])]
        d3 == [d2 EXCEPT !.ft = @ \o token_tuples]
    IN IF fault = 1 THEN [db |-> dbcon, error |-> "OperationalError"]
       ELSE IF fault = 2 THEN [db |-> d1, error |-> "OperationalError"]
       ELSE IF UrnExists(d1, metadata_tuple.dhlabid)
            THEN [db |-> d1, error |-> "IntegrityError"]
       ELSE IF fault = 3 THEN [db |-> d2, error |-> "OperationalError"]
       ELSE [db |-> d3, error |-> None]

\* tokenize and output to sqlite3 (lines 292-299)
WriteToLocalDatabase ==
    /\ pc = "write_db"
    /\ \E fault \in 0..3 :
          LET r == _write_to_local_database(db, TokenTuples(fulltext_dict),
                                            MetadataTuple(fulltext_dict), fault)
          IN /\ db' = r.db
             /\ exc' = r.error
             /\ pc' = IF r.error = None THEN "increment" ELSE "except"
    /\ UNCHANGED <<fn_arg, fn_result>>
    /\ UNCHANGED <<args, dhlabid_value, conn, numPubs, domIdx, items,
                   collection, metaIdx, texts, textIdx, fulltext_dict, log,
                   dbfile, status, emitted>>

\* Increment with the counter left alone when allocation is disabled
Increment_OnlyWhenEnabled ==
    /\ pc = "increment"
    /\ dhlabid_value' = IF args.is_disabled THEN dhlabid_value
                        ELSE dhlabid_value + 1
    /\ emitted' = Append(emitted, fulltext_dict.dhlabid)
    /\ pc' = "next_text"
    /\ UNCHANGED <<fn_arg, fn_result>>
    /\ UNCHANGED <<args, conn, numPubs, domIdx, items, collection, metaIdx,
                   texts, textIdx, fulltext_dict, log, db, dbfile, exc,
                   status>>

\* dhlabid_value += 1
Increment ==
    /\ pc = "increment"
    /\ dhlabid_value' = dhlabid_value + 1
    /\ emitted' = Append(emitted, fulltext_dict.dhlabid)
    /\ pc' = "next_text"
    /\ UNCHANGED <<fn_arg, fn_result>>
    /\ UNCHANGED <<args, conn, numPubs, domIdx, items, collection, metaIdx,
                   texts, textIdx, fulltext_dict, log, db, dbfile, exc,
                   status>>

\* a variant of the current hash or a metadata record of the current domain
\* has not been processed yet
SiblingsLeft == textIdx < Len(texts) \/ metaIdx < Len(collection)

\* Except with the try block around one record instead of one domain
Except_PerRecord ==
    /\ pc = "except"
    /\ pc' = "next_text"
    /\ exc' = None
    /\ UNCHANGED <<fn_arg, fn_result>>
    /\ UNCHANGED <<args, dhlabid_value, conn, numPubs, domIdx, items,
                   collection, metaIdx, texts, textIdx, fulltext_dict, log,
                   db, dbfile, status, emitted>>

\* except Exception as e: print(items[domain_key], ...); continue. The print
\* raises KeyError when the publication has no domain key, and that error
\* leaves the loop and both with blocks.
Except ==
    /\ pc = "except"
    /\ status' = [status EXCEPT ![domIdx].phase = "Failed",
                                ![domIdx].error = exc,
                                ![domIdx].skipped = SiblingsLeft]
    /\ IF items.domain # None
       THEN /\ pc' = "loop"
            /\ exc' = None
       ELSE /\ pc' = "crashed"
            /\ exc' = "KeyError"
    /\ IterationLocalsDead
    /\ UNCHANGED <<fn_arg, fn_result>>
    /\ UNCHANGED <<args, dhlabid_value, conn, numPubs, domIdx, log, db,
                   dbfile, emitted>>

\* SELECT min(urn), max(urn) FROM urns, as the f-string prints them
MinMaxUrn(dbcon) ==
    LET urns == { dbcon.urns[k].urn : k \in 1..Len(dbcon.urns) }
    IN IF urns = {} THEN <<"None", "None">>
       ELSE << ToString(CHOOSE u \in urns : \A v \in urns : u <= v),
               ToString(CHOOSE u \in urns : \A v \in urns : u >= v) >>

\* f"{output_dir}/alto_{min_max[0]}_{min_max[1]}.db"
NewDbName(min_max) ==
    "alto_" \o min_max[1] \o "_" \o min_max[2] \o ".db"

\* _rename_db
RenameDb ==
    /\ pc = "rename"
    /\ dbfile' = NewDbName(MinMaxUrn(db))
    /\ pc' = "done"
    /\ UNCHANGED <<fn_arg, fn_result>>
    /\ UNCHANGED <<args, dhlabid_value, conn, numPubs, domIdx, items,
                   collection, metaIdx, texts, textIdx, fulltext_dict, log,
                   db, exc, status, emitted>>

Next ==
    \/ Connect
    \/ ConnectFail
    \/ LoadConfig
    \/ LoadConfigFail
    \/ NextDomain
    \/ LoopExit
    \/ Validate
    \/ FetchMetadata
    \/ FetchMetadataFail
    \/ NextMetadata
    \/ DomainCompleted
    \/ FetchTexts
    \/ FetchTextsFail
    \/ NextText
    \/ TextsDone
    \/ WriteLog
    \/ WriteLogFail
    \/ WriteToLocalDatabase
    \/ Increment
    \/ Except
    \/ CloseConnection
    \/ RenameDb

Spec == Init /\ [][Next]_vars

(* ------------------------------ properties ----------------------------- *)
Terminal == pc \in {"done", "crashed"}

\* the errors _write_to_local_database raises
SinkErrors == {"OperationalError", "IntegrityError"}

\* the positions of the log entries of the d-th publication
LogOf(d) == { i \in 1..Len(log) : log[i].domain = DomainName(d) }

\* the entry at position i is the one whose row-store write failed: the last
\* entry of a domain that failed with a sink error
WriteFailed(i) ==
    \E d \in 1..MaxDomains :
        /\ i \in LogOf(d)
        /\ \A j \in LogOf(d) : j <= i
        /\ \/ status[d].phase = "Failed" /\ status[d].error \in SinkErrors
           \/ d = domIdx /\ pc = "except" /\ exc \in SinkErrors

\* the rows of a table that carry the identifier id
MetadataRowsOf(id) ==
    { db.metadata[k] : k \in { k \in 1..Len(db.metadata) : db.metadata[k].dhlabid = id } }
TokenRowsOf(id) ==
    { db.ft[k] : k \in { k \in 1..Len(db.ft) : db.ft[k].urn = id } }
Range(seq) == { seq[k] : k \in 1..Len(seq) }

\* C1: with allocation enabled, no two entries of the record log carry the
\* same assigned identifier. (Violated: a record whose row-store write fails
\* keeps its log entry, the counter is not advanced, and the first record of
\* the next domain is logged with the same identifier.)
C1_NoIdentifierReuse ==
    ~args.is_disabled =>
        \A i \in 1..Len(log) : \A j \in 1..Len(log) :
            i # j => log[i].dhlabid # log[j].dhlabid

\* C2: with allocation enabled and starting value S, the identifiers of the
\* successfully emitted records are S, S+1, ... in emission order, each of
\* them has its log entry and its rows in the row store, and the counter is
\* S + N in every state (it is never reset).
C2_EmittedConsecutive ==
    ~args.is_disabled =>
        /\ \A i \in 1..Len(emitted) : emitted[i] = args.starting_value + i - 1
        /\ \A i \in 1..Len(emitted) :
              /\ \E j \in 1..Len(log) : log[j].dhlabid = emitted[i]
              /\ UrnExists(db, emitted[i])
              /\ MetadataRowsOf(emitted[i]) # {}
        /\ dhlabid_value = args.starting_value + Len(emitted)

\* two domains emitted records and the first of them failed after emitting
C2_Witness ==
    /\ ~args.is_disabled
    /\ Len(emitted) >= 2
    /\ status[1].phase = "Failed"
    /\ \E i \in LogOf(1) : log[i].dhlabid = emitted[1]
    /\ \E j \in LogOf(2) : log[j].dhlabid = emitted[Len(emitted)]

\* C3: the row-store write of a record is atomic: whenever the metadata row
\* of a logged record is visible, all the token rows of that record are.
\* (Violated: each insert is committed on its own, so a failure of the second
\* or third insert leaves the metadata row without the token rows.)
C3_WriteAtomic ==
    \A i \in 1..Len(log) :
        (MetadataTuple(log[i]) \in Range(db.metadata))
            => Range(TokenTuples(log[i])) \subseteq Range(db.ft)

\* C4: every metadata row of the row store has an entry in the record log
\* with the same domain, identifier and content hash.
C4_RowHasLogEntry ==
    \A k \in 1..Len(db.metadata) :
        \E i \in 1..Len(log) :
            /\ log[i].domain = db.metadata[k].domain
            /\ log[i].dhlabid = db.metadata[k].dhlabid
            /\ log[i].hash = db.metadata[k].hash

\* a row was written in a run in which a log append had failed
C4_Witness ==
    /\ Len(db.metadata) >= 1
    /\ \E d \in 1..MaxDomains : status[d].error = "LogWriteError"

\* C5: when the run has finished, every log entry whose row-store write did
\* not fail finds, under its identifier, its own metadata row and its own
\* token rows and no other record's. (Violated: an identifier is used again
\* after a failed write, and the metadata row the failed write left behind
\* stays under the identifier of the later record.)
C5_RoundTrip ==
    pc = "done" =>
        \A i \in 1..Len(log) :
            ~WriteFailed(i) =>
                /\ MetadataRowsOf(log[i].dhlabid) = {MetadataTuple(log[i])}
                /\ TokenRowsOf(log[i].dhlabid) = Range(TokenTuples(log[i]))

\* the failures of a domain that do not come from another domain
OwnFaults == {"KeyError", "ValueError", "MetadataFetchError",
              "FulltextFetchError", "LogWriteError", "OperationalError"}

\* C6: when the domain loop has run to its end, every domain after a failed
\* one was processed, and it failed only if it had a fault of its own.
\* (Violated: the identifier a failed write left in urns is used again by the
\* next domain, whose insert into urns then raises IntegrityError.)
C6_LaterDomainsComplete ==
    pc = "done" =>
        \A i \in 1..numPubs : \A d \in 1..numPubs :
            (i < d /\ status[i].phase = "Failed") =>
                /\ status[d].phase \in {"Completed", "Failed"}
                /\ status[d].phase = "Failed" => status[d].error \in OwnFaults

\* the d-th publication failed in _fetch_fulltext_hash_and_metadata
MetadataFetchFailed(d) ==
    \/ status[d].phase = "Failed" /\ status[d].error = "MetadataFetchError"
    \/ d = domIdx /\ pc = "except" /\ exc = "MetadataFetchError"

\* C7: a domain whose metadata fetch raises leaves the counter, the record
\* log and the row store as they were: it has no log entry and no row, the
\* raise and its handling change none of the three, and the first record of
\* the next domain gets the identifier the counter had when the failed domain
\* began.
C7_FetchFailureChangesNothing ==
    /\ [](\A d \in 1..MaxDomains :
            MetadataFetchFailed(d) =>
                /\ LogOf(d) = {}
                /\ \A k \in 1..Len(db.metadata) :
                       db.metadata[k].domain # DomainName(d)
                /\ IF d < domIdx
                   THEN /\ status[d + 1].first_id = status[d].first_id
                        /\ \A i \in LogOf(d + 1) :
                              (\A j \in LogOf(d + 1) : i <= j) =>
                                  log[i].dhlabid = status[d].first_id
                   ELSE dhlabid_value = status[d].first_id)
    /\ [][((pc = "fetch_metadata" /\ pc' = "except")
            \/ (pc = "except" /\ exc = "MetadataFetchError"))
          => UNCHANGED <<dhlabid_value, log, db>>]_vars

\* a metadata fetch failed and the next domain has logged its first record
\* with the identifier the counter had when the failed domain began
C7_Witness ==
    \E d \in 1..(MaxDomains - 1) :
        /\ MetadataFetchFailed(d)
        /\ d < domIdx
        /\ \E i \in LogOf(d + 1) : log[i].dhlabid = status[d].first_id

\* C8 as stated: after a failed row-store write the run goes on with the
\* remaining variants and metadata records of the same domain. (Violated:
\* the error reaches the except clause of the domain loop, which goes on with
\* the next domain.)
C8_SiblingsContinue ==
    [][(pc = "except" /\ exc \in SinkErrors /\ SiblingsLeft)
        => (domIdx' = domIdx /\ pc' \in {"next_text", "next_metadata"})]_vars

\* C8 as amended: a failed row-store write ends its domain. The handler
\* marks the domain failed and goes to the next publication without writing,
\* and no entry is ever appended to the log of a domain that has failed.
C8_FailedWriteEndsDomain ==
    [][/\ (pc = "except" /\ exc \in SinkErrors) =>
            /\ pc' = "loop"
            /\ status'[domIdx].phase = "Failed"
            /\ UNCHANGED <<log, db, dhlabid_value, domIdx>>
       /\ log' # log =>
            /\ Len(log') = Len(log) + 1
            /\ log'[Len(log')].domain = DomainName(domIdx)
            /\ status[domIdx].phase # "Failed"]_vars

\* a write failed with records of its domain left over, and the next domain
\* has been taken
C8_Witness ==
    \E d \in 1..(MaxDomains - 1) :
        /\ status[d].phase = "Failed"
        /\ status[d].error \in SinkErrors
        /\ status[d].skipped
        /\ domIdx = d + 1
        /\ LogOf(d + 1) # {}

\* SELECT min(dhlabid), max(dhlabid) FROM metadata, printed the same way
MinMaxMetadata ==
    LET ids == { db.metadata[k].dhlabid : k \in 1..Len(db.metadata) }
    IN IF ids = {} THEN <<"None", "None">>
       ELSE << ToString(CHOOSE u \in ids : \A v \in ids : u <= v),
               ToString(CHOOSE u \in ids : \A v \in ids : u >= v) >>

\* C9: the name of the finalized file holds the minimum and the maximum
\* identifier of the metadata table. (Violated: _rename_db reads urns, and a
\* write that fails in the insert into urns leaves its identifier in
\* metadata alone.)
C9_NameIsMinMaxOfMetadata ==
    pc = "done" => dbfile = NewDbName(MinMaxMetadata)

\* C10: no terminal state of the run has the source connection open.
\* (Violated: _connect_to_database has no try/finally around its yield, so an
\* error that leaves the with block skips both close calls.)
C10_ConnectionReleased ==
    Terminal => conn # "open"

(* ------------------- functions called on their own -------------------- *)
\* the run itself is not started: only the called function acts
RunIdle ==
    /\ pc = "idle"
    /\ args = [is_disabled |-> TRUE, starting_value |-> 0]
    /\ dhlabid_value = 1
    /\ conn = "unopened"
    /\ numPubs = 0
    /\ domIdx = 0
    /\ items = NoItem
    /\ collection = <<>>
    /\ metaIdx = 0
    /\ texts = <<>>
    /\ textIdx = 0
    /\ fulltext_dict = NoDict
    /\ log = <<>>
    /\ db = EmptyDb
    /\ dbfile = "temp"
    /\ exc = None
    /\ status = [d \in 1..MaxDomains |->
                    [phase |-> "Pending", error |-> None, first_id |-> 0,
                     skipped |-> FALSE]]
    /\ emitted = <<>>

RunUnchanged ==
    UNCHANGED <<pc, args, dhlabid_value, conn, numPubs, domIdx, items,
                collection, metaIdx, texts, textIdx, fulltext_dict, log, db,
                dbfile, exc, status, emitted>>

\* the strings of a row: "", "a", "b"
DedupeStrings == { <<>>, <<"a">>, <<"b">> }

\* the arguments of _remove_duplicates_and_empty_strings: list[tuple[str, ...]]
DedupeArgs ==
    UNION { [1..n -> UNION { [1..c -> DedupeStrings] : c \in 1..MaxColumns }] :
            n \in 0..MaxVariants }

InitDedupe ==
    /\ RunIdle
    /\ fn_arg \in DedupeArgs
    /\ fn_result = NoResult

\* a call of _remove_duplicates_and_empty_strings(fn_arg)
CallRemoveDuplicates ==
    /\ ~fn_result.done
    /\ fn_result' = [done |-> TRUE,
                     value |-> _remove_duplicates_and_empty_strings(fn_arg)]
    /\ UNCHANGED fn_arg
    /\ RunUnchanged

NextDedupe == CallRemoveDuplicates

SpecDedupe == InitDedupe /\ [][NextDedupe]_vars

RECURSIVE Flatten(_)
\* the items of all rows, in the order of the rows
Flatten(rows) == IF rows = <<>> THEN <<>> ELSE Head(rows) \o Flatten(Tail(rows))

\* the position of the first occurrence of x in seq
FirstIndex(seq, x) ==
    CHOOSE k \in 1..Len(seq) : seq[k] = x /\ \A m \in 1..(k - 1) : seq[m] # x

\* C11: the result of _remove_duplicates_and_empty_strings holds no empty
\* string and no string twice, holds exactly the distinct non-empty strings
\* of the input, and lists them in the order of their first occurrence.
C11_DedupeTexts ==
    fn_result.done =>
        LET out == fn_result.value
            flat == Flatten(fn_arg)
        IN /\ \A k \in 1..Len(out) : out[k] # <<>>
           /\ \A i \in 1..Len(out) : \A j \in 1..Len(out) :
                  i # j => out[i] # out[j]
           /\ Range(out) = Range(flat) \ {<<>>}
           /\ \A i \in 1..Len(out) : \A j \in 1..Len(out) :
                  i < j => FirstIndex(flat, out[i]) < FirstIndex(flat, out[j])

\* a call whose input has an empty string and the same string in two rows,
\* and whose result keeps two strings
C11_Witness ==
    /\ fn_result.done
    /\ Len(fn_result.value) = 2
    /\ <<>> \in Range(Flatten(fn_arg))
    /\ \E i \in 1..Len(fn_arg) : \E j \in 1..Len(fn_arg) :
          i # j /\ (Range(fn_arg[i]) \cap Range(fn_arg[j])) \ {<<>>} # {}

(* ----------------- _fetch_fulltext_hash_and_metadata ------------------- *)
\* the (fulltext_hash, target_uri) pairs a result set can hold, in the order
\* of the ORDER BY; the hash may be the empty string (a NULL hash never gets
\* through the WHERE clause of the query)
MetadataPairs ==
    << <<"", "u1">>, <<"h1", "u1">>, <<"h1", "u2">>, <<"h2", "u1">> >>

MetadataRecordIds == {None, "r1", "r2"}

MetadataRows ==
    { [record_id |-> r, hash |-> MetadataPairs[k][1], uri |-> MetadataPairs[k][2],
       rank |-> k] : r \in MetadataRecordIds, k \in 1..Len(MetadataPairs) }

\* the values of all_results: distinct pairs in the order of the ORDER BY
MetadataArgs ==
    { rows \in UNION { [1..n -> MetadataRows] : n \in 0..MaxRows } :
        \A i \in 1..Len(rows) : \A j \in 1..Len(rows) :
            i < j => rows[i].rank < rows[j].rank }

InitMetadata ==
    /\ RunIdle
    /\ fn_arg \in MetadataArgs
    /\ fn_result = NoResult

\* the loop of _fetch_fulltext_hash_and_metadata over all_results = fn_arg
CallFetchMetadata ==
    /\ ~fn_result.done
    /\ fn_result' = [done |-> TRUE, value |-> FilterRows(fn_arg, <<>>)]
    /\ UNCHANGED fn_arg
    /\ RunUnchanged

NextMetadataCall == CallFetchMetadata

SpecMetadata == InitMetadata /\ [][NextMetadataCall]_vars

\* C12: the returned sequence has at most one entry per content hash, and
\* for each hash it is the first row of the source with that hash.
\* (Violated: line 187 looks the record_id up among the kept hashes, so no
\* row is ever taken for a duplicate.)
C12_OneEntryPerHash ==
    fn_result.done =>
        LET out == fn_result.value
        IN /\ \A i \in 1..Len(out) : \A j \in 1..Len(out) :
                  i # j => out[i].hash # out[j].hash
           /\ \A i \in 1..Len(out) : \A k \in 1..Len(fn_arg) :
                  fn_arg[k].hash = out[i].hash => out[i].rank <= fn_arg[k].rank

\* C15: no entry of the returned sequence has an empty content hash.
\* (Violated: line 186 tests the record_id, not the hash.)
C15_EmptyHashDropped ==
    fn_result.done =>
        \A i \in 1..Len(fn_result.value) : fn_result.value[i].hash # ""

(* ----------------------------- _parse_tokens --------------------------- *)
\* the characters of a text: two letters, the blank and the newline
Chars == {"a", "b", " ", "\n"}

ParseArgs == UNION { [1..n -> Chars] : n \in 0..MaxTextLen }

InitTokens ==
    /\ RunIdle
    /\ fn_arg \in ParseArgs
    /\ fn_result = NoResult

\* a call of _parse_tokens(fn_arg)
CallParseTokens ==
    /\ ~fn_result.done
    /\ fn_result' = [done |-> TRUE, value |-> _parse_tokens(fn_arg)]
    /\ UNCHANGED fn_arg
    /\ RunUnchanged

NextTokens == CallParseTokens

SpecTokens == InitTokens /\ [][NextTokens]_vars

\* the tokens of the records that carry paragraph number p
TokensOfParagraph(out, p) ==
    LET sel == SelectSeq(out, LAMBDA t : t.paragraph_number = p)
    IN [k \in 1..Len(sel) |-> sel[k].token]

\* C13: the sequence numbers of the token records are 0, 1, 2, ... over the
\* whole text, the paragraph numbers never decrease, and the records with
\* paragraph number p are the tokens of the p-th piece (from 0) of the text
\* split at newlines, so an empty paragraph has no record and still counts.
C13_TokenNumbers ==
    fn_result.done =>
        LET out == fn_result.value
            paragraphs == Split(fn_arg, "\n", <<>>)
        IN /\ \A k \in 1..Len(out) : out[k].sequence_number = k - 1
           /\ \A i \in 1..Len(out) : \A j \in 1..Len(out) :
                  i < j => out[i].paragraph_number <= out[j].paragraph_number
           /\ \A k \in 1..Len(out) :
                  out[k].paragraph_number \in 0..(Len(paragraphs) - 1)
           /\ \A p \in 0..(Len(paragraphs) - 1) :
                  TokensOfParagraph(out, p) = tokenize(paragraphs[p + 1])

\* "a b\n\na": paragraphs 0, 0, 2 and sequence numbers 0, 1, 2
C13_Witness ==
    /\ fn_result.done
    /\ fn_arg = <<"a", " ", "b", "\n", "\n", "a">>
    /\ [k \in 1..Len(fn_result.value) |-> fn_result.value[k].paragraph_number]
           = <<0, 0, 2>>
    /\ [k \in 1..Len(fn_result.value) |-> fn_result.value[k].sequence_number]
           = <<0, 1, 2>>

EditorRejected ==
    items.domain # None /\ items.editor \in {"absent", "false"}

\* C16: a publication whose responsible-editor flag is absent or false is
\* rejected before any fetch: it never gets past the check, it has no log
\* entry and no row, the counter keeps the value it had when the publication
\* was taken, the handler marks it failed and the loop goes on.
C16_EditorRejectedBeforeFetch ==
    /\ [](EditorRejected =>
            /\ pc \in {"validate", "except"}
            /\ status[domIdx].phase = "Fetching"
            /\ LogOf(domIdx) = {}
            /\ \A k \in 1..Len(db.metadata) :
                   db.metadata[k].domain # items.domain
            /\ dhlabid_value = status[domIdx].first_id)
    /\ [](\A d \in 1..MaxDomains :
            (status[d].phase = "Failed" /\ status[d].error = "ValueError") =>
                /\ LogOf(d) = {}
                /\ IF d < domIdx
                   THEN status[d + 1].first_id = status[d].first_id
                   ELSE dhlabid_value = status[d].first_id)
    /\ [][EditorRejected =>
            /\ UNCHANGED <<log, db, dhlabid_value, domIdx>>
            /\ pc = "validate" => pc' = "except"
            /\ pc = "except" =>
                   pc' = "loop" /\ status'[domIdx].phase = "Failed"]_vars

\* a publication was rejected for its flag and the next one has emitted
C16_Witness ==
    /\ status[1].phase = "Failed"
    /\ status[1].error = "ValueError"
    /\ LogOf(1) = {}
    /\ domIdx = 2
    /\ \E i \in LogOf(2) : log[i].dhlabid = status[1].first_id
    /\ Len(emitted) >= 1

\* C17: the log of a domain never holds two entries with the same content
\* hash and the same raw text. (Violated: the metadata fetch keeps two rows
\* with the same hash, the texts of that hash are fetched and logged once for
\* each of them.)
C17_OncePerHashAndText ==
    \A d \in 1..MaxDomains :
        \A i \in LogOf(d) : \A j \in LogOf(d) :
            i # j => ~(log[i].hash = log[j].hash
                       /\ log[i].full_text = log[j].full_text)

\* C18: once the domain loop has begun, the run does not end without having
\* renamed the row store, whatever fails in the domains. (Violated: for a
\* publication without its domain key the except handler raises, the error
\* leaves _main and _rename_db is never called.)
C18_AlwaysFinalized ==
    Terminal => \/ domIdx = 0
                \/ pc = "done" /\ dbfile # "temp"

\* C19: every token row of ft refers to an identifier that has a row in urns
\* and a row in metadata.
C19_TokenRowsHaveUrnAndMetadata ==
    \A k \in 1..Len(db.ft) :
        /\ UrnExists(db, db.ft[k].urn)
        /\ MetadataRowsOf(db.ft[k].urn) # {}

\* token rows were written, and a later write failed after its first commit
C19_Witness ==
    /\ Len(db.ft) >= 1
    /\ Len(db.metadata) > Len(db.urns)
    /\ \E d \in 1..MaxDomains :
          status[d].phase = "Failed" /\ status[d].error \in SinkErrors

\* the row-store write of the entry at position i has completed: its token
\* rows are there (every text of TextPool that is logged has a token) and
\* its metadata row is the last one inserted under its identifier
WriteCompleted(i) ==
    /\ TokenRowsOf(log[i].dhlabid) # {}
    /\ \E k \in 1..Len(db.metadata) :
          /\ db.metadata[k] = MetadataTuple(log[i])
          /\ \A m \in (k + 1)..Len(db.metadata) :
                 db.metadata[m].dhlabid # log[i].dhlabid

\* C20: in the log of each domain only the last entry can be one whose
\* row-store write did not complete (so there is at most one such entry).
C20_OnlyLastEntryIncomplete ==
    \A d \in 1..MaxDomains :
        \A i \in LogOf(d) :
            ~WriteCompleted(i) => \A j \in LogOf(d) : j <= i

\* a domain emitted a record, then failed in the write of its next record,
\* and the following domain has logged a record
C20_Witness ==
    /\ status[1].phase = "Failed"
    /\ status[1].error \in SinkErrors
    /\ Cardinality(LogOf(1)) >= 2
    /\ \E i \in LogOf(1) : ~WriteCompleted(i)
    /\ \E i \in LogOf(1) : WriteCompleted(i)
    /\ LogOf(2) # {}

====
